---------------------------- MODULE Spec2Model ----------------------------
(***************************************************************************)
(* A model of the USPTO bulk file processor: the three converters of       *)
(* src/src/converters.ts (dialect A = version 4 XML, dialect B = version 2 *)
(* XML, dialect C = PFTAPS text) and the fetch / sync pipeline of          *)
(* src/src/index.ts.                                                       *)
(*                                                                         *)
(* Text is a sequence of tokens.  A token is a keyword of one of the file  *)
(* formats ("PATN", "PNO", "CLMS", ...), the line terminator "CRLF"        *)
(* (\r\n), a space "SP", a digit, the full stop "." or a letter.  String   *)
(* operations of the code (split, trim, startsWith, the regular            *)
(* expressions, JSON.stringify) are computed on token sequences.           *)
(***************************************************************************)
EXTENDS Integers, Sequences, FiniteSets, TLC

(***************************************************************************)
(* JavaScript values.  Every value is a record tagged by its type, so that *)
(* null, undefined, strings, arrays and objects can be compared.           *)
(***************************************************************************)
Null == [t |-> "null"]

Undefined == [t |-> "undefined"]

\* The outcome of an expression that raises a TypeError.
Throw == [t |-> "throw"]

Str(s) == [t |-> "string", s |-> s]

Arr(a) == [t |-> "array", a |-> a]

Obj(f) == [t |-> "object", f |-> f]

IsStr(v) == v.t = "string"

(***************************************************************************)
(* String operations on token sequences.                                   *)
(***************************************************************************)
IsWhitespace(tok) == tok \in {"SP", "TAB", "CRLF"}

IsDigit(tok) == tok \in {"0", "1", "2"}

\* String.prototype.startsWith
StartsWith(s, p) == Len(s) >= Len(p) /\ SubSeq(s, 1, Len(p)) = p

\* The position of the first occurrence of sep in s at or after from; 0 if none.
RECURSIVE IndexOf(_, _, _)
IndexOf(s, sep, from) ==
  IF from + Len(sep) - 1 > Len(s) THEN 0
  ELSE IF SubSeq(s, from, from + Len(sep) - 1) = sep THEN from
  ELSE IndexOf(s, sep, from + 1)

\* String.prototype.split with a non-empty separator: the pieces between the
\* occurrences of sep, the separator consumed; a string without the separator
\* (the empty string too) gives one piece.
RECURSIVE Split(_, _)
Split(s, sep) ==
  LET i == IndexOf(s, sep, 1)
  IN  IF i = 0 THEN <<s>>
      ELSE <<SubSeq(s, 1, i - 1)>> \o Split(SubSeq(s, i + Len(sep), Len(s)), sep)

RECURSIVE TrimStart(_)
TrimStart(s) ==
  IF s # <<>> /\ IsWhitespace(Head(s)) THEN TrimStart(Tail(s)) ELSE s

RECURSIVE TrimEnd(_)
TrimEnd(s) ==
  IF s # <<>> /\ IsWhitespace(s[Len(s)]) THEN TrimEnd(SubSeq(s, 1, Len(s) - 1)) ELSE s

\* String.prototype.trim
Trim(s) == TrimEnd(TrimStart(s))

\* The number of leading digits of s.
RECURSIVE DigitRun(_)
DigitRun(s) ==
  IF s # <<>> /\ IsDigit(Head(s)) THEN 1 + DigitRun(Tail(s)) ELSE 0

\* The JSON text of the elements of an array of strings: each element quoted
\* (an undefined element is written null), commas between them.
RECURSIVE JoinElements(_)
JoinElements(a) ==
  IF a = <<>> THEN <<>>
  ELSE (IF Head(a).t = "string"
        THEN <<"QUOTE">> \o Head(a).s \o <<"QUOTE">>
        ELSE <<"null">>)
       \o (IF Len(a) > 1 THEN <<"COMMA">> ELSE <<>>)
       \o JoinElements(Tail(a))

\* JSON.stringify of the patentClaims value, which is null or an array (of
\* strings, in this model): the text "null", or the elements between brackets.
JsonStringify(v) ==
  IF v.t = "null" THEN Str(<<"null">>)
  ELSE Str(<<"LBRACKET">> \o JoinElements(v.a) \o <<"RBRACKET">>)


(***************************************************************************)
(* Dialect C (PFTAPS): the helpers of convertUsptoPftapsDataToJs.          *)
(***************************************************************************)
CRLF == <<"CRLF">>

\* The split alone: the piece before the first PATN line is kept.
PftapsSectionsKeepFirst(pftapsData) == Split(pftapsData, <<"PATN", "CRLF">>)

\* pftapsData.split(/PATN\r\n/gm).slice(1)
PftapsSections(pftapsData) == Tail(Split(pftapsData, <<"PATN", "CRLF">>))

\* A lookup outside any try block: the exception leaves the record.
TryCatchRethrow(v) == v

\* try { ... } catch (parsingError) { field = null }
TryCatch(v) == IF v = Throw THEN Null ELSE v

\* section.split('\r\n').filter(l => l.startsWith(prefix))[0].split(prefix)[1]:
\* a TypeError when no line starts with the prefix.
PrefixLookup(section, prefix) ==
  LET matches == SelectSeq(Split(section, CRLF), LAMBDA l : StartsWith(l, prefix))
  IN  IF matches = <<>> THEN Throw ELSE Str(Split(matches[1], prefix)[2])

\* section.split('\r\n').some(l => /^DCLM\r\n$/.test(l)) ? 'design' : 'utility'
PftapsType(section) ==
  LET lines == Split(section, CRLF)
  IN  IF \E i \in 1..Len(lines) : lines[i] = <<"DCLM", "CRLF">>
      THEN Str(<<"design">>)
      ELSE Str(<<"utility">>)

\* section.split(/(CLMS|DCLM)\r\n/gm).pop(): the text after the last
\* claims-section marker, the whole section when it holds no marker.
RECURSIVE AfterLastClaimsMarker(_)
AfterLastClaimsMarker(s) ==
  LET i == IndexOf(s, <<"CLMS", "CRLF">>, 1)
      j == IndexOf(s, <<"DCLM", "CRLF">>, 1)
      k == IF i = 0 THEN j ELSE IF j = 0 THEN i ELSE IF i < j THEN i ELSE j
  IN  IF k = 0 THEN s ELSE AfterLastClaimsMarker(SubSeq(s, k + 2, Len(s)))

\* .pop().trim().split('\r\n')
ClaimLinesOf(section) == Split(Trim(AfterLastClaimsMarker(section)), CRLF)

\* /^NUM\s{2}[0-9]{1,}[.]$/
IsClaimNumberLine(l) ==
  /\ Len(l) >= 5
  /\ l[1] = "NUM" /\ IsWhitespace(l[2]) /\ IsWhitespace(l[3])
  /\ LET d == DigitRun(SubSeq(l, 4, Len(l)))
     IN  d >= 1 /\ SubSeq(l, 4 + d, Len(l)) = <<".">>

\* /^STM\s{2}/
IsStmLine(l) ==
  Len(l) >= 3 /\ l[1] = "STM" /\ IsWhitespace(l[2]) /\ IsWhitespace(l[3])

\* claimLine.replace(/(^PAR\s{2}[0-9]{1,}[.])|(^(PA1|PAR|PAL)\s{2})/, '')
StripParagraphPrefix(l) ==
  IF Len(l) >= 3 /\ l[1] \in {"PA1", "PAR", "PAL"}
     /\ IsWhitespace(l[2]) /\ IsWhitespace(l[3])
  THEN LET d == DigitRun(SubSeq(l, 4, Len(l)))
       IN  IF l[1] = "PAR" /\ d >= 1 /\ Len(l) >= 4 + d /\ l[4 + d] = "."
           THEN SubSeq(l, 5 + d, Len(l))
           ELSE SubSeq(l, 4, Len(l))
  ELSE l

\* The state of the claim loop before its first line.
ClaimLoopInit ==
  [claimData |-> <<>>, claimNumber |-> <<"1", ".">>,
   accumulatedClaimLine |-> <<>>, threw |-> FALSE]

\* The loop body without the push of a section of one line.
ClaimLoopBodyNoSingleFlush(st, claimLine, n) ==
  IF IsClaimNumberLine(claimLine)
  THEN [st EXCEPT !.claimData =
                    IF st.accumulatedClaimLine # <<>>
                    THEN Append(@, st.accumulatedClaimLine) ELSE @,
                  !.threw = Len(Split(claimLine, <<"SP", "SP">>)) < 2,
                  !.accumulatedClaimLine = <<>>]
  ELSE IF IsStmLine(claimLine) THEN st
  ELSE [st EXCEPT !.accumulatedClaimLine =
                    @ \o Trim(StripParagraphPrefix(claimLine)) \o <<"SP">>]

\* One iteration of  for (let claimLine of claimLines) { ... }  on the loop
\* state st; n is claimLines.length.
ClaimLoopBody(st, claimLine, n) ==
  IF IsClaimNumberLine(claimLine)
  THEN LET parts == Split(claimLine, <<"SP", "SP">>)
       IN  IF Len(parts) < 2
           THEN \* claimLine.split('  ')[1] is undefined: .trim() throws
                [st EXCEPT !.claimData =
                             IF st.accumulatedClaimLine # <<>>
                             THEN Append(@, st.accumulatedClaimLine) ELSE @,
                           !.threw = TRUE]
           ELSE [st EXCEPT !.claimData =
                             IF st.accumulatedClaimLine # <<>>
                             THEN Append(@, st.accumulatedClaimLine) ELSE @,
                           !.claimNumber = Trim(parts[2]),
                           !.accumulatedClaimLine = <<>>]
  ELSE IF IsStmLine(claimLine) THEN st
  ELSE LET acc == st.accumulatedClaimLine
                    \o Trim(StripParagraphPrefix(claimLine)) \o <<"SP">>
       IN  [st EXCEPT !.accumulatedClaimLine = acc,
                      !.claimData = IF n = 1 THEN Append(@, acc) ELSE @]

\* The loop from the line at index i on.
RECURSIVE ClaimLoop(_, _, _)
ClaimLoop(st, claimLines, i) ==
  IF i > Len(claimLines) \/ st.threw THEN st
  ELSE ClaimLoop(ClaimLoopBody(st, claimLines[i], Len(claimLines)), claimLines, i + 1)

\* claimData.map(claim => claim.trim())
TrimAll(claimData) == [i \in 1..Len(claimData) |-> Str(Trim(claimData[i]))]

\* The claims lookup of one record substring: the try block of lines 397-435.
PftapsClaims(section) ==
  LET st == ClaimLoop(ClaimLoopInit, ClaimLinesOf(section), 1)
  IN  IF st.threw THEN Throw ELSE Arr(TrimAll(st.claimData))


(***************************************************************************)
(* Dialects A and B: the record spans, the XML parse and the lookup paths. *)
(* A span is the opening token of the root element, a sequence of content  *)
(* tokens and the closing token.  A content token stands for one attribute *)
(* of the root element or for one child element with all it contains; the  *)
(* token "BAD" stands for malformed markup and "JUNK" for character data.  *)
(***************************************************************************)
OpenA == "<us-patent-grant"

CloseA == "</us-patent-grant>"

OpenB == "<PATDOC"

CloseB == "</PATDOC>"

\* xmlData.match(/[<]open\s.*?[<][/]open[>]/gmis): the non-overlapping spans
\* from an opening token to the first closing token after it.
RECURSIVE MatchSpans(_, _, _)
MatchSpans(xmlData, open, close) ==
  LET i == IndexOf(xmlData, <<open>>, 1)
      j == IF i = 0 THEN 0 ELSE IndexOf(xmlData, <<close>>, i + 1)
  IN  IF j = 0 THEN <<>>
      ELSE <<Str(SubSeq(xmlData, i, j))>>
           \o MatchSpans(SubSeq(xmlData, j + 1, Len(xmlData)), open, close)

\* String.prototype.match with a global expression: null when nothing matches.
Match(xmlData, open, close) ==
  LET m == MatchSpans(xmlData, open, close)
  IN  IF m = <<>> THEN Null ELSE Arr(m)

EmptyObject == [k \in {} |-> Null]

\* <name>text</name> as xml2js gives it: the text itself.
Text(tok) == Str(<<tok>>)

\* The attributes the content tokens stand for.
AttrName(tok) ==
  CASE tok = "lang=EN" -> "lang"
    [] tok = "status=" -> "status"
    [] tok = "DTD=2.4" -> "DTD"
    [] tok = "STATUS=" -> "STATUS"
    [] OTHER -> ""

AttrValue(tok) ==
  CASE tok = "lang=EN" -> Str(<<"EN">>)
    [] tok = "DTD=2.4" -> Str(<<"2.4">>)
    [] OTHER -> Str(<<>>)

IsAttr(tok) == AttrName(tok) # ""

\* The child elements the content tokens stand for.
ElemName(tok) ==
  CASE tok \in {"BIBLIO", "BIBLIO0"} -> "us-bibliographic-data-grant"
    [] tok \in {"CLAIMS", "CLAIMS0"} -> "claims"
    [] tok \in {"SDOBI", "SDOBI0"} -> "SDOBI"
    [] tok \in {"SDOCL", "SDOCL0"} -> "SDOCL"
    [] OTHER -> ""

IsElem(tok) == ElemName(tok) # ""

\* What xml2js makes of each child element: an object of arrays of children,
\* attributes under "$", text beside attributes under "_", and an element
\* without content as the empty string.
ElemNode(tok) ==
  CASE tok = "BIBLIO" ->
         Obj(("publication-reference" :> Arr(<<Obj("document-id" :>
                Arr(<<Obj("doc-number" :> Arr(<<Text("7")>>))>>))>>))
             @@ ("application-reference" :> Arr(<<Obj("$" :>
                Obj("appl-type" :> Text("utility")))>>))
             @@ ("invention-title" :> Arr(<<Obj(("_" :> Text("T"))
                @@ ("$" :> Obj("id" :> Text("d1"))))>>)))
    [] tok = "BIBLIO0" ->
         Obj("publication-reference" :> Arr(<<Obj("document-id" :>
                Arr(<<Obj("doc-number" :> Arr(<<Text("8")>>))>>))>>))
    [] tok = "CLAIMS" ->
         Obj("claim" :> Arr(<<Obj("claim-text" :> Arr(<<Text("c")>>))>>))
    [] tok = "CLAIMS0" ->
         Obj("claim" :> Arr(<<Obj("claim-text" :> Arr(<<Text("c")>>)),
                             Str(<<>>)>>))
    [] tok = "SDOBI" ->
         Obj(("B100" :> Arr(<<Obj(
                ("B110" :> Arr(<<Obj("DNUM" :> Arr(<<Obj("PDAT" :> Arr(<<Text("7")>>))>>))>>))
                @@ ("B140" :> Arr(<<Obj("DATE" :> Arr(<<Obj("PDAT" :> Arr(<<Text("d1")>>))>>))>>))
                @@ ("B190" :> Arr(<<Obj("PDAT" :> Arr(<<Text("US")>>))>>)))>>))
             @@ ("B200" :> Arr(<<Obj("B220" :> Arr(<<Obj("DATE" :>
                Arr(<<Obj("PDAT" :> Arr(<<Text("d2")>>))>>))>>))>>))
             @@ ("B500" :> Arr(<<Obj("B540" :> Arr(<<Obj("STEXT" :>
                Arr(<<Obj("PDAT" :> Arr(<<Text("T")>>))>>))>>))>>)))
    [] tok = "SDOBI0" ->
         Obj("B100" :> Arr(<<Obj(
                "B110" :> Arr(<<Obj("DNUM" :> Arr(<<Obj("PDAT" :> Arr(<<Text("8")>>))>>))>>))>>))
    [] tok = "SDOCL" ->
         Obj("CL" :> Arr(<<Obj("CLM" :> Arr(<<Obj("PARA" :> Arr(<<Obj("PTEXT" :>
                Arr(<<Obj("PDAT" :> Arr(<<Text("c")>>))>>))>>))>>))>>))
    [] tok = "SDOCL0" ->
         Obj("CL" :> Arr(<<Obj("CLM" :> Arr(<<Str(<<>>)>>))>>))
    [] OTHER -> Undefined

\* The tokens that make a span malformed: bad markup, or an opening or closing
\* token of a root element inside the span.
IsMalformed(tok) == tok \in {"BAD", OpenA, CloseA, OpenB, CloseB}

\* await xmlParser.parseStringPromise(span): Throw when the span is malformed
\* (the promise rejects), else the object { root: node }.
XmlParse(span, root) ==
  LET content == SubSeq(span, 2, Len(span) - 1)
      toks == {content[i] : i \in 1..Len(content)}
      attrs == {tok \in toks : IsAttr(tok)}
      names == {ElemName(tok) : tok \in {x \in toks : IsElem(x)}}
      text == SelectSeq(content, LAMBDA tok : ~IsAttr(tok) /\ ~IsElem(tok))
      children(n) ==
        LET sel == SelectSeq(content, LAMBDA tok : ElemName(tok) = n)
        IN  Arr([i \in 1..Len(sel) |-> ElemNode(sel[i])])
      keys == names \cup (IF attrs = {} THEN {} ELSE {"$"})
                    \cup (IF text = <<>> THEN {} ELSE {"_"})
      node == IF attrs = {} /\ names = {} THEN Str(text)
              ELSE Obj([k \in keys |->
                     IF k = "$"
                     THEN Obj([a \in {AttrName(tok) : tok \in attrs} |->
                            AttrValue(CHOOSE tok \in attrs : AttrName(tok) = a)])
                     ELSE IF k = "_" THEN Str(text)
                     ELSE children(k)])
  IN  IF \E tok \in toks : IsMalformed(tok) THEN Throw
      ELSE Obj(root :> node)

\* An array index written as a property key.
Index(k) == CASE k = "0" -> 1 [] k = "1" -> 2 [] OTHER -> 0

\* v[k]: a TypeError on null and undefined, undefined for a key the value
\* does not have.
Get(v, k) ==
  IF v.t \in {"null", "undefined", "throw"} THEN Throw
  ELSE IF v.t = "object" THEN (IF k \in DOMAIN v.f THEN v.f[k] ELSE Undefined)
  ELSE IF v.t = "array"
       THEN (IF Index(k) \in 1..Len(v.a) THEN v.a[Index(k)] ELSE Undefined)
  ELSE (IF Index(k) \in 1..Len(v.s) THEN Str(<<v.s[Index(k)]>>) ELSE Undefined)

\* v[k1][k2]...[kn]
RECURSIVE Path(_, _)
Path(v, keys) ==
  IF keys = <<>> THEN v ELSE Path(Get(v, Head(keys)), Tail(keys))

\* v[...].map(claim => claim[...]): a TypeError unless the receiver is an
\* array and every element's own lookup succeeds.
MapPath(v, arrayKeys, elementKeys) ==
  LET arr == Path(v, arrayKeys)
  IN  IF arr.t # "array" THEN Throw
      ELSE IF \E i \in 1..Len(arr.a) : Path(arr.a[i], elementKeys) = Throw THEN Throw
      ELSE Arr([i \in 1..Len(arr.a) |-> Path(arr.a[i], elementKeys)])


(***************************************************************************)
(* The record of one section, per dialect: twelve fields, each assigned in *)
(* a try block of its own.  A lookup is the right-hand side of one         *)
(* assignment; its value is Throw when evaluating it raises a TypeError.   *)
(***************************************************************************)
RootA == "us-patent-grant"

BiblioA == <<RootA, "us-bibliographic-data-grant", "0">>

\* The right-hand sides of the twelve assignments of convertUsptoVersion4XmlDataToJs.
V4Lookups(parsed) ==
  [applicationNumber |-> Path(parsed, BiblioA \o
       <<"publication-reference", "0", "document-id", "0", "doc-number", "0">>),
   type |-> Path(parsed, BiblioA \o
       <<"application-reference", "0", "$", "appl-type">>),
   language |-> Path(parsed, <<RootA, "$", "lang">>),
   country |-> Path(parsed, <<RootA, "$", "country">>),
   dateProduced |-> Path(parsed, <<RootA, "$", "date-produced">>),
   datePublished |-> Path(parsed, <<RootA, "$", "date-publ">>),
   dtdVersion |-> Path(parsed, <<RootA, "$", "dtd-version">>),
   fileName |-> Path(parsed, <<RootA, "$", "file">>),
   patentStatus |-> Path(parsed, <<RootA, "$", "status">>),
   patentClaims |-> MapPath(parsed, <<RootA, "claims", "0", "claim">>,
                                     <<"claim-text", "0">>),
   inventionTitle |-> Path(parsed, BiblioA \o <<"invention-title", "0", "_">>),
   inventionId |-> Path(parsed, BiblioA \o <<"invention-title", "0", "$", "id">>)]

RootB == "PATDOC"

B100 == <<RootB, "SDOBI", "0", "B100", "0">>

TitleB == <<RootB, "SDOBI", "0", "B500", "0", "B540", "0", "STEXT", "0", "PDAT", "0">>

\* The right-hand sides of the twelve assignments of convertUsptoVersion2XmlDataToJs.
V2Lookups(parsed, xmlFileName) ==
  [applicationNumber |-> Path(parsed, B100 \o
       <<"B110", "0", "DNUM", "0", "PDAT", "0">>),
   type |-> Null,
   language |-> Null,
   country |-> Path(parsed, B100 \o <<"B190", "0", "PDAT", "0">>),
   dateProduced |-> Path(parsed, B100 \o
       <<"B140", "0", "DATE", "0", "PDAT", "0">>),
   datePublished |-> Path(parsed,
       <<RootB, "SDOBI", "0", "B200", "0", "B220", "0", "DATE", "0", "PDAT", "0">>),
   dtdVersion |-> Path(parsed, <<RootB, "$", "DTD">>),
   fileName |-> xmlFileName,
   patentStatus |-> Path(parsed, <<RootB, "$", "STATUS">>),
   patentClaims |-> MapPath(parsed, <<RootB, "SDOCL", "0", "CL">>,
       <<"CLM", "0", "PARA", "0", "PTEXT", "0", "PDAT", "0">>),
   inventionTitle |-> Path(parsed, TitleB),
   inventionId |-> Path(parsed, TitleB)]

PNO == <<"PNO", "SP", "SP">>

APD == <<"APD", "SP", "SP">>

ISD == <<"ISD", "SP", "SP">>

TTL == <<"TTL", "SP", "SP">>

\* The right-hand sides of the twelve assignments of convertUsptoPftapsDataToJs.
PftapsLookups(patentPftapsSection, pftapsFileName) ==
  [applicationNumber |-> PrefixLookup(patentPftapsSection, PNO),
   type |-> PftapsType(patentPftapsSection),
   language |-> Null,
   country |-> Null,
   dateProduced |-> PrefixLookup(patentPftapsSection, APD),
   datePublished |-> PrefixLookup(patentPftapsSection, ISD),
   dtdVersion |-> Null,
   fileName |-> pftapsFileName,
   patentStatus |-> Null,
   patentClaims |-> PftapsClaims(patentPftapsSection),
   inventionTitle |-> PrefixLookup(patentPftapsSection, TTL),
   inventionId |-> PrefixLookup(patentPftapsSection, ISD)]

Fields == DOMAIN PftapsLookups(<<>>, Null)

\* Each assignment in its try block: a lookup that throws leaves null.
V4Record(parsed) ==
  LET lookups == V4Lookups(parsed)
  IN  [f \in Fields |-> TryCatch(lookups[f])]

V2Record(parsed, xmlFileName) ==
  LET lookups == V2Lookups(parsed, xmlFileName)
  IN  [f \in Fields |-> TryCatch(lookups[f])]

PftapsRecord(patentPftapsSection, pftapsFileName) ==
  LET lookups == PftapsLookups(patentPftapsSection, pftapsFileName)
  IN  [f \in Fields |-> TryCatch(lookups[f])]

\* { ...typedPatentProcessedData, patentClaims: JSON.stringify(patentClaims) }
SchemaData(rec) == [rec EXCEPT !.patentClaims = JsonStringify(@)]

\* Object.values(processedPatentSchemaData).every(value => value === null)
EveryValueNull(rec) == \A f \in DOMAIN rec : rec[f] = Null

\* unshift instead of push: the record goes to the front.
PushFront(list, rec) == <<rec>> \o list

\* usptoBulkPatentData.push(record)
Push(list, rec) == Append(list, rec)

\* Whether an exception left one of the assignments of a record.
Escaped(rec) == \E f \in DOMAIN rec : rec[f] = Throw

\* The body of the loop over the sections, on the result so far: an exception
\* (the rejected parse, or one that left a try block) ends the call, else the
\* record is pushed; dialects B and C push it unless every value is null.
V4Iteration(res, section) ==
  LET parsed == XmlParse(section, RootA)
      rec == V4Record(parsed)
  IN  IF parsed = Throw \/ Escaped(rec) THEN [res EXCEPT !.threw = TRUE]
      ELSE [res EXCEPT !.records = Push(@, SchemaData(rec))]

V2Iteration(res, section, xmlFileName) ==
  LET parsed == XmlParse(section, RootB)
      rec == V2Record(parsed, xmlFileName)
  IN  IF parsed = Throw \/ Escaped(rec) THEN [res EXCEPT !.threw = TRUE]
      ELSE IF ~EveryValueNull(SchemaData(rec))
           THEN [res EXCEPT !.records = Push(@, SchemaData(rec))]
           ELSE res

PftapsIteration(res, section, pftapsFileName) ==
  LET rec == PftapsRecord(section, pftapsFileName)
  IN  IF Escaped(rec) THEN [res EXCEPT !.threw = TRUE]
      ELSE IF ~EveryValueNull(SchemaData(rec))
           THEN [res EXCEPT !.records = Push(@, SchemaData(rec))]
           ELSE res

\* The sections of a blob, per dialect: null when match finds no span.
SectionsOf(d, blob) ==
  CASE d = "A" -> Match(blob, OpenA, CloseA)
    [] d = "B" -> Match(blob, OpenB, CloseB)
    [] d = "C" -> LET secs == PftapsSections(blob)
                  IN  Arr([i \in 1..Len(secs) |-> Str(secs[i])])

Iteration(d, res, section, fileNameArg) ==
  CASE d = "A" -> V4Iteration(res, section)
    [] d = "B" -> V2Iteration(res, section, fileNameArg)
    [] d = "C" -> PftapsIteration(res, section, fileNameArg)

\* A whole call of a converter: the loop over the sections from index i on.
\* Iterating over null throws.
RECURSIVE ConvertFrom(_, _, _, _, _)
ConvertFrom(d, res, secs, i, fileNameArg) ==
  IF res.threw \/ i > Len(secs) THEN res
  ELSE ConvertFrom(d, Iteration(d, res, secs[i].s, fileNameArg), secs, i + 1, fileNameArg)

\* A converter that returns no record and never throws.
ConvertNothing(d, blob, fileNameArg) == [threw |-> FALSE, records |-> <<>>]

Convert(d, blob, fileNameArg) ==
  LET secs == SectionsOf(d, blob)
  IN  IF secs = Null THEN [threw |-> TRUE, records |-> <<>>]
      ELSE ConvertFrom(d, [threw |-> FALSE, records |-> <<>>], secs.a, 1, fileNameArg)


(***************************************************************************)
(* State.                                                                  *)
(***************************************************************************)
VARIABLES
  \* one call of a converter
  dialect,              \* "A", "B" or "C": which converter is called
  data,                 \* its first argument, the blob
  fileNameArg,          \* its second argument (dialects B and C), or null
  sections,             \* the record substrings; null when match found none
  secIdx,               \* the index of the next section of the loop
  usptoBulkPatentData,  \* the records pushed so far
  emittedFrom,          \* history: the section index each pushed record came from
  convPc,               \* "idle", "start", "loop", "returned" or "threw"
  \* the claims lookup of one dialect C record substring
  patentPftapsSection,  \* the record substring
  claimLines,           \* the lines of its claim section
  claimIdx,             \* the index of the next line of the loop
  claimLoop,            \* claimData, claimNumber and accumulatedClaimLine
  patentClaims,         \* processedPatentData.patentClaims once assigned
  claimPc,              \* "idle", "start", "loop" or "done"
  \* the processor: runs of UsptoPatentProcessor
  options,              \* the constructor's options
  syncFile,             \* the synchronization file: whether it exists, its URLs
  runPc,                \* where run() stands
  runs,                 \* the runs started so far
  year,                 \* the year of the outer loop
  links,                \* the links of the year's listing taken so far
  usptoZipFileName,     \* the link at hand
  usptoEntryFile,       \* the entry of the fetched archive
  usptoProcessedData,   \* the converter's result, undefined before
  localFiles,           \* the files written to local directories
  remotePosts,          \* the POST requests issued: directory and file name
  mongoSaves,           \* the database saves started, each pending, saved or failed
  history               \* history: what was fetched, converted and skipped

convVars ==
  <<dialect, data, fileNameArg, sections, secIdx, usptoBulkPatentData,
    emittedFrom, convPc>>

claimVars ==
  <<patentPftapsSection, claimLines, claimIdx, claimLoop, patentClaims, claimPc>>

runVars ==
  <<options, syncFile, runPc, runs, year, links, usptoZipFileName,
    usptoEntryFile, usptoProcessedData, localFiles, remotePosts, mongoSaves,
    history>>

vars == <<convVars, claimVars, runVars>>

ConvIdle ==
  /\ dialect = "C" /\ data = <<>> /\ fileNameArg = Null /\ sections = Null
  /\ secIdx = 1 /\ usptoBulkPatentData = <<>> /\ emittedFrom = <<>>
  /\ convPc = "idle"

ClaimIdle ==
  /\ patentPftapsSection = <<>> /\ claimLines = <<>> /\ claimIdx = 1
  /\ claimLoop = ClaimLoopInit /\ patentClaims = Undefined /\ claimPc = "idle"

\* options.fileLimit, as given to the constructor
FileLimit == 1

NoHistory ==
  [fetched |-> {}, fetchedSynced |-> {}, converted |-> {}, skipped |-> {},
   calls |-> {}, fetchedInRun |-> 0, failed |-> {}]

RunIdle ==
  /\ options = [localUsptoXmlDir |-> Null, localUsptoJsonDir |-> Null,
                remoteUsptoXmlDir |-> Null, remoteUsptoJsonDir |-> Null,
                mongoDBConnectionString |-> Null, fileLimit |-> FileLimit]
  /\ syncFile = [exists |-> FALSE, urls |-> <<>>]
  /\ runPc = "idle" /\ runs = 0 /\ year = 0 /\ links = 0
  /\ usptoZipFileName = Undefined /\ usptoEntryFile = Undefined
  /\ usptoProcessedData = Undefined
  /\ localFiles = {} /\ remotePosts = {} /\ mongoSaves = {}
  /\ history = NoHistory

(***************************************************************************)
(* Inputs.                                                                 *)
(***************************************************************************)
\* The most chunks (record spans, truncated spans, character data) of a blob
\* of dialect A or B.
MaxSections == 2

\* The most lines of a blob of dialect C.
MaxLines == 4

\* The most lines of a record substring handed to the claims lookup.
MaxClaimLines == 4

RECURSIVE Concat(_)
Concat(ss) == IF ss = <<>> THEN <<>> ELSE Head(ss) \o Concat(Tail(ss))

SeqsUpTo(S, n) == UNION {[1..k -> S] : k \in 0..n}

ContentsA ==
  {<<>>, <<"lang=EN">>, <<"status=">>, <<"BIBLIO">>, <<"CLAIMS">>,
   <<"lang=EN", "status=">>, <<"lang=EN", "BIBLIO">>, <<"lang=EN", "CLAIMS">>,
   <<"status=", "BIBLIO">>, <<"status=", "CLAIMS">>, <<"BIBLIO", "CLAIMS">>,
   <<"lang=EN", "status=", "BIBLIO", "CLAIMS">>,
   <<"lang=EN", "CLAIMS0">>, <<"BIBLIO0", "BIBLIO">>, <<"BAD">>}

ContentsB ==
  {<<>>, <<"DTD=2.4">>, <<"STATUS=">>, <<"SDOBI">>, <<"SDOCL">>,
   <<"DTD=2.4", "STATUS=">>, <<"DTD=2.4", "SDOBI">>, <<"DTD=2.4", "SDOCL">>,
   <<"STATUS=", "SDOBI">>, <<"STATUS=", "SDOCL">>, <<"SDOBI", "SDOCL">>,
   <<"DTD=2.4", "STATUS=", "SDOBI", "SDOCL">>,
   <<"DTD=2.4", "SDOCL0">>, <<"SDOBI0", "SDOBI">>, <<"BAD">>}

\* A chunk of an XML blob: character data, a span cut off before its closing
\* token, or a whole span.
Chunks(open, close, contents) ==
  {<<"JUNK">>, <<open>>} \cup {<<open>> \o c \o <<close>> : c \in contents}

LinesC ==
  {<<"PATN">>, <<"PNO", "SP", "SP", "1">>, <<"PNO", "SP", "SP">>,
   <<"ISD", "SP", "SP", "d">>, <<"DCLM">>, <<"CLMS">>, <<"a">>}

\* The lines of record substrings handed to the claims lookup.
SectionLines ==
  {<<"TTL", "SP", "SP", "t">>, <<"CLMS">>, <<"NUM", "SP", "SP", "1", ".">>,
   <<"NUM", "TAB", "TAB", "2", ".">>, <<"a">>, <<"PA1", "SP", "SP", "b">>,
   <<"STM", "SP", "SP", "s">>}

Terminated(lines) == Concat([i \in 1..Len(lines) |-> lines[i] \o CRLF])

Blobs(d) ==
  CASE d = "A" -> {Concat(q) : q \in SeqsUpTo(Chunks(OpenA, CloseA, ContentsA), MaxSections)}
    [] d = "B" -> {Concat(q) : q \in SeqsUpTo(Chunks(OpenB, CloseB, ContentsB), MaxSections)}
    [] d = "C" -> {Terminated(q) : q \in SeqsUpTo(LinesC, MaxLines)}

FileNameArgs(d) == IF d = "A" THEN {Null} ELSE {Null, Str(<<"f.xml">>)}

(***************************************************************************)
(* One call of a converter, a section at a time.                           *)
(***************************************************************************)
InitConv ==
  /\ dialect \in {"A", "B", "C"}
  /\ data \in Blobs(dialect)
  /\ fileNameArg \in FileNameArgs(dialect)
  /\ sections = Null /\ secIdx = 1
  /\ usptoBulkPatentData = <<>> /\ emittedFrom = <<>>
  /\ convPc = "start"
  /\ ClaimIdle /\ RunIdle

\* The statements before the loop: the sections are cut out of the blob;
\* the loop over null throws at once.
SplitSections ==
  /\ convPc = "start"
  /\ sections' = SectionsOf(dialect, data)
  /\ convPc' = IF sections' = Null THEN "threw" ELSE "loop"
  /\ UNCHANGED <<dialect, data, fileNameArg, secIdx, usptoBulkPatentData,
                 emittedFrom, claimVars, runVars>>

\* One iteration of the loop of the converter of dialect d.
ProcessSection(d) ==
  /\ convPc = "loop" /\ dialect = d /\ secIdx <= Len(sections.a)
  /\ LET res == Iteration(d, [threw |-> FALSE, records |-> usptoBulkPatentData],
                          sections.a[secIdx].s, fileNameArg)
     IN  /\ usptoBulkPatentData' = res.records
         /\ emittedFrom' = IF Len(res.records) > Len(usptoBulkPatentData)
                           THEN Append(emittedFrom, secIdx) ELSE emittedFrom
         /\ convPc' = IF res.threw THEN "threw" ELSE "loop"
         /\ secIdx' = IF res.threw THEN secIdx ELSE secIdx + 1
  /\ UNCHANGED <<dialect, data, fileNameArg, sections, claimVars, runVars>>

ProcessSectionV4 == ProcessSection("A")

ProcessSectionV2 == ProcessSection("B")

ProcessSectionPftaps == ProcessSection("C")

\* return usptoBulkPatentData
ReturnData ==
  /\ convPc = "loop" /\ secIdx > Len(sections.a)
  /\ convPc' = "returned"
  /\ UNCHANGED <<dialect, data, fileNameArg, sections, secIdx,
                 usptoBulkPatentData, emittedFrom, claimVars, runVars>>

NextConv ==
  \/ SplitSections
  \/ ProcessSectionV4
  \/ ProcessSectionV2
  \/ ProcessSectionPftaps
  \/ ReturnData

SpecConv == InitConv /\ [][NextConv]_vars

(***************************************************************************)
(* One call of convertUsptoPftapsDataToJs on the lines of bibliographic    *)
(* fields.                                                                 *)
(***************************************************************************)
\* The most lines after the first PATN line of a blob of field lines.
MaxFieldLines == 3

\* Lines of the prefixed fields; in two of them the prefix token comes again
\* within the line.
FieldLines ==
  {<<"PATN">>, <<"PNO", "SP", "SP", "1">>,
   <<"PNO", "SP", "SP", "1", "PNO", "SP", "SP", "2">>,
   <<"APD", "SP", "SP", "d">>, <<"ISD", "SP", "SP", "d">>,
   <<"TTL", "SP", "SP", "t", "SP", "TTL", "SP", "SP", "t">>}

InitPftaps ==
  /\ dialect = "C"
  /\ data \in {Terminated(<<<<"PATN">>>> \o q) : q \in SeqsUpTo(FieldLines, MaxFieldLines)}
  /\ fileNameArg = Null
  /\ sections = Null /\ secIdx = 1
  /\ usptoBulkPatentData = <<>> /\ emittedFrom = <<>>
  /\ convPc = "start"
  /\ ClaimIdle /\ RunIdle

NextPftaps ==
  \/ SplitSections
  \/ ProcessSectionPftaps
  \/ ReturnData

SpecPftaps == InitPftaps /\ [][NextPftaps]_vars

(***************************************************************************)
(* The claims lookup of dialect C, a line at a time.                       *)
(***************************************************************************)
InitClaims ==
  /\ patentPftapsSection \in {Terminated(q) : q \in SeqsUpTo(SectionLines, MaxClaimLines)}
  /\ claimLines = <<>> /\ claimIdx = 1 /\ claimLoop = ClaimLoopInit
  /\ patentClaims = Undefined /\ claimPc = "start"
  /\ ConvIdle /\ RunIdle

\* let claimLines = section.split(/(CLMS|DCLM)\r\n/gm).pop().trim().split('\r\n')
SplitClaimLines ==
  /\ claimPc = "start"
  /\ claimLines' = ClaimLinesOf(patentPftapsSection)
  /\ claimPc' = "loop"
  /\ UNCHANGED <<patentPftapsSection, claimIdx, claimLoop, patentClaims, convVars, runVars>>

\* One iteration of the loop over claimLines.
ClaimIteration ==
  /\ claimPc = "loop" /\ claimIdx <= Len(claimLines) /\ ~claimLoop.threw
  /\ claimLoop' = ClaimLoopBody(claimLoop, claimLines[claimIdx], Len(claimLines))
  /\ claimIdx' = claimIdx + 1
  /\ UNCHANGED <<patentPftapsSection, claimLines, patentClaims, claimPc, convVars, runVars>>

\* After the loop: claimData.map(trim) is assigned to patentClaims.
AssignClaims ==
  /\ claimPc = "loop" /\ claimIdx > Len(claimLines) /\ ~claimLoop.threw
  /\ patentClaims' = Arr(TrimAll(claimLoop.claimData))
  /\ claimPc' = "done"
  /\ UNCHANGED <<patentPftapsSection, claimLines, claimIdx, claimLoop, convVars, runVars>>

\* catch (parsingError) { processedPatentData.patentClaims = null }
CatchClaims ==
  /\ claimPc = "loop" /\ claimLoop.threw
  /\ patentClaims' = Null
  /\ claimPc' = "done"
  /\ UNCHANGED <<patentPftapsSection, claimLines, claimIdx, claimLoop, convVars, runVars>>

NextClaims ==
  \/ SplitClaimLines
  \/ ClaimIteration
  \/ AssignClaims
  \/ CatchClaims

SpecClaims == InitClaims /\ [][NextClaims]_vars


(***************************************************************************)
(* The processor: UsptoPatentProcessor of src/src/index.ts.  A run walks   *)
(* the years from endYear down to startYear, takes the links of each       *)
(* year's listing one by one, and fetches, converts and saves every        *)
(* archive whose URL is not in the synchronization file.                   *)
(***************************************************************************)
\* options.startYear and options.endYear, as given to the constructor
StartYear == 1

EndYear == 2

\* The most runs of the processor.
MaxRuns == 2

\* The most links taken from the listings, over all runs.
MaxLinks == 2

\* The href attributes a listing may hold.
Hrefs ==
  {<<"ipg", "1", ".zip">>, <<"pg0", "1", ".zip">>, <<"pftaps", "1", ".zip">>,
   <<"misc", ".zip">>, <<"ipg", "1", "-supp", ".zip">>}

\* The three filters on the links of a listing: a zip file, not a
\* supplemental file, not a DTD file.
KeepLink(fileName) ==
  /\ fileName # <<>> /\ fileName[Len(fileName)] = ".zip"
  /\ IndexOf(fileName, <<"-supp", ".zip">>, 1) = 0
  /\ IndexOf(fileName, <<"dtd", ".zip">>, 1) = 0

\* usptoBulkDataYearUrl + '/' + usptoZipFileName
ZipFileLink(y, fileName) == <<y, fileName>>

\* The blobs the first entry of a fetched archive may hold.
ArchiveBlobs(fileName) ==
  CASE Head(fileName) = "ipg" ->
         {<<OpenA, "lang=EN", "CLAIMS", CloseA>>, <<OpenA, "BAD", CloseA>>}
    [] Head(fileName) = "pg0" -> {<<OpenB, "SDOBI", "SDOCL", CloseB>>}
    [] Head(fileName) = "pftaps" ->
         {Terminated(<<<<"PATN">>, <<"PNO", "SP", "SP", "1">>, <<"CLMS">>,
                       <<"NUM", "SP", "SP", "1", ".">>, <<"PA1", "SP", "SP", "b">>>>)}
    [] OTHER -> {<<"JUNK">>}

\* The name of the entry of an archive: that of the archive, with .xml.
EntryName(fileName) == SubSeq(fileName, 1, Len(fileName) - 1) \o <<".xml">>

\* usptoEntryFileName.split('.')[0]
JsonFileName(entryName) ==
  SelectSeq(entryName, LAMBDA tok : tok \notin {".xml", ".zip", ".txt"})

OptionSets ==
  {[localUsptoXmlDir |-> Str(<<"uspto_xml_data">>),
    localUsptoJsonDir |-> Str(<<"uspto_json_data">>),
    remoteUsptoXmlDir |-> Null, remoteUsptoJsonDir |-> Null,
    mongoDBConnectionString |-> Null, fileLimit |-> FileLimit],
   [localUsptoXmlDir |-> Null, localUsptoJsonDir |-> Null,
    remoteUsptoXmlDir |-> Str(<<"remote_xml">>),
    remoteUsptoJsonDir |-> Str(<<"remote_json">>),
    mongoDBConnectionString |-> Str(<<"mongodb">>), fileLimit |-> FileLimit]}

\* A URL is never in the file: the check is skipped.
IsInSyncFileNever(file, fileUrl) == FALSE

\* isInSyncFile, on the file as it is after the method created it.
IsInSyncFile(file, fileUrl) ==
  \E i \in 1..Len(file.urls) : file.urls[i] = fileUrl

\* if (!fs.existsSync(path)) fs.writeFileSync(path, '[]')
Created(file) == IF file.exists THEN file ELSE [exists |-> TRUE, urls |-> <<>>]

\* The file is created when missing, and the URL is not added.
SaveToSyncFileNothing(file, fileUrl) == Created(file)

\* saveToSyncFile
SaveToSyncFile(file, fileUrl) ==
  [exists |-> TRUE, urls |-> Append(Created(file).urls, fileUrl)]

\* saveToLocalDirectory: nothing for a null directory, and an existing file
\* is left as it is.
SaveToLocalDirectory(files, directory, fileName) ==
  IF directory # Null THEN files \cup {[directory |-> directory, fileName |-> fileName]}
  ELSE files

\* The first two branches with their converters exchanged.
DialectOfExchanged(fileName) ==
  CASE Head(fileName) = "ipg" -> "B"
    [] Head(fileName) = "pg0" -> "A"
    [] Head(fileName) = "pftaps" -> "C"
    [] OTHER -> "none"

\* The converter processAndSaveUsptoData picks by the zip file name, called
\* with the data alone; undefined when no prefix matches.
DialectOf(fileName) ==
  CASE Head(fileName) = "ipg" -> "A"
    [] Head(fileName) = "pg0" -> "B"
    [] Head(fileName) = "pftaps" -> "C"
    [] OTHER -> "none"

Init ==
  /\ options \in OptionSets
  /\ syncFile = [exists |-> FALSE, urls |-> <<>>]
  /\ runPc = "idle" /\ runs = 0 /\ year = 0 /\ links = 0
  /\ usptoZipFileName = Undefined /\ usptoEntryFile = Undefined
  /\ usptoProcessedData = Undefined
  /\ localFiles = {} /\ remotePosts = {} /\ mongoSaves = {}
  /\ history = NoHistory
  /\ ConvIdle /\ ClaimIdle

\* run(): the outer loop starts at endYear.
StartRun ==
  /\ runPc \in {"idle", "done", "failed"} /\ runs < MaxRuns
  /\ runs' = runs + 1
  /\ year' = EndYear
  /\ runPc' = "year"
  /\ history' = [history EXCEPT !.fetchedInRun = 0]
  /\ UNCHANGED <<options, syncFile, links, usptoZipFileName, usptoEntryFile,
                 usptoProcessedData, localFiles, remotePosts, mongoSaves,
                 convVars, claimVars>>

\* The outer loop ends below startYear and run() returns.
EndRun ==
  /\ runPc = "year" /\ year < StartYear
  /\ runPc' = "done"
  /\ UNCHANGED <<options, syncFile, runs, year, links, usptoZipFileName,
                 usptoEntryFile, usptoProcessedData, localFiles, remotePosts,
                 mongoSaves, history, convVars, claimVars>>

\* await axios.get(usptoBulkDataYearUrl): the request fails and run() rejects,
\* or answers another status than 200 and the year is passed over, or gives
\* the listing.
FetchYearPage ==
  /\ runPc = "year" /\ year >= StartYear
  /\ \E outcome \in {"error", "other", "ok"} :
       /\ runPc' = CASE outcome = "error" -> "failed"
                     [] outcome = "other" -> "year"
                     [] outcome = "ok" -> "link"
       /\ year' = IF outcome = "other" THEN year - 1 ELSE year
  /\ UNCHANGED <<options, syncFile, runs, links, usptoZipFileName, usptoEntryFile,
                 usptoProcessedData, localFiles, remotePosts, mongoSaves,
                 history, convVars, claimVars>>

\* The listing has no further link: the next year.
EndListing ==
  /\ runPc = "link"
  /\ year' = year - 1
  /\ runPc' = "year"
  /\ UNCHANGED <<options, syncFile, runs, links, usptoZipFileName,
                 usptoEntryFile, usptoProcessedData, localFiles, remotePosts,
                 mongoSaves, history, convVars, claimVars>>

\* The next link of the listing: dropped by the filters, or passed over
\* because isInSyncFile finds its URL, or taken to be fetched.  isInSyncFile
\* creates the file when it is missing.
NextLink ==
  /\ runPc = "link" /\ links < MaxLinks
  /\ \E href \in Hrefs :
       LET url == ZipFileLink(year, href)
       IN  /\ links' = links + 1
           /\ IF ~KeepLink(href)
              THEN UNCHANGED <<syncFile, runPc, usptoZipFileName, history>>
              ELSE /\ syncFile' = Created(syncFile)
                   /\ IF IsInSyncFile(Created(syncFile), url)
                      THEN /\ history' = [history EXCEPT !.skipped = @ \cup {url}]
                           /\ UNCHANGED <<runPc, usptoZipFileName>>
                      ELSE /\ usptoZipFileName' = Str(href)
                           /\ runPc' = "fetch"
                           /\ UNCHANGED history
  /\ UNCHANGED <<options, runs, year, usptoEntryFile, usptoProcessedData,
                 localFiles, remotePosts, mongoSaves, convVars, claimVars>>

\* await axios.get(usptoZipFileLink) fails (or the archive has no entry) and
\* run() rejects.
FetchZipFails ==
  /\ runPc = "fetch"
  /\ runPc' = "failed"
  /\ history' = [history EXCEPT
       !.fetched = @ \cup {ZipFileLink(year, usptoZipFileName.s)},
       !.fetchedSynced = @ \cup
          (IF IsInSyncFile(syncFile, ZipFileLink(year, usptoZipFileName.s))
           THEN {ZipFileLink(year, usptoZipFileName.s)} ELSE {})]
  /\ UNCHANGED <<options, syncFile, runs, year, links, usptoZipFileName,
                 usptoEntryFile, usptoProcessedData, localFiles, remotePosts,
                 mongoSaves, convVars, claimVars>>

\* The archive is fetched and its first entry read; processAndSaveUsptoData
\* saves the entry to the local XML directory, issues the two POST requests
\* without awaiting them, and calls the converter.
FetchZip ==
  /\ runPc = "fetch"
  /\ \E blob \in ArchiveBlobs(usptoZipFileName.s) :
       usptoEntryFile' = [name |-> EntryName(usptoZipFileName.s), data |-> blob]
  /\ history' = [history EXCEPT
       !.fetchedInRun = @ + 1,
       !.fetched = @ \cup {ZipFileLink(year, usptoZipFileName.s)},
       !.fetchedSynced = @ \cup
          (IF IsInSyncFile(syncFile, ZipFileLink(year, usptoZipFileName.s))
           THEN {ZipFileLink(year, usptoZipFileName.s)} ELSE {})]
  /\ localFiles' = SaveToLocalDirectory(localFiles, options.localUsptoXmlDir,
                                        EntryName(usptoZipFileName.s))
  /\ remotePosts' = remotePosts \cup
       {[directory |-> options.remoteUsptoXmlDir,
         fileName |-> EntryName(usptoZipFileName.s)]}
  /\ usptoProcessedData' = Undefined
  /\ runPc' = "convert"
  /\ UNCHANGED <<options, syncFile, runs, year, links, usptoZipFileName,
                 mongoSaves, convVars, claimVars>>

\* The converter picked by the prefix of the zip file name settles: it
\* rejects and run() rejects with it, or it gives the records.  No converter
\* is called for another prefix.
ConvertData ==
  /\ runPc = "convert"
  /\ LET d == DialectOf(usptoZipFileName.s)
         res == Convert(d, usptoEntryFile.data, Null)
     IN  IF d = "none"
         THEN /\ runPc' = "save"
              /\ UNCHANGED <<usptoProcessedData, history>>
         ELSE IF res.threw
         THEN /\ runPc' = "failed"
              /\ history' = [history EXCEPT
                   !.failed = @ \cup {ZipFileLink(year, usptoZipFileName.s)},
                   !.calls = @ \cup {[url |-> ZipFileLink(year, usptoZipFileName.s),
                                      dialect |-> d]}]
              /\ UNCHANGED usptoProcessedData
         ELSE /\ runPc' = "save"
              /\ usptoProcessedData' = Arr(res.records)
              /\ history' = [history EXCEPT
                   !.converted = @ \cup {ZipFileLink(year, usptoZipFileName.s)},
                   !.calls = @ \cup {[url |-> ZipFileLink(year, usptoZipFileName.s),
                                      dialect |-> d]}]
  /\ UNCHANGED <<options, syncFile, runs, year, links, usptoZipFileName,
                 usptoEntryFile, localFiles, remotePosts, mongoSaves,
                 convVars, claimVars>>

\* The rest of processAndSaveUsptoData: Buffer.from(JSON.stringify(undefined))
\* throws when no converter ran; else the JSON file is saved, the URL is
\* added to the synchronization file, and the database save is started and
\* not awaited.
SaveAndSync ==
  /\ runPc = "save"
  /\ IF usptoProcessedData = Undefined
     THEN /\ runPc' = "failed"
          /\ history' = [history EXCEPT
               !.failed = @ \cup {ZipFileLink(year, usptoZipFileName.s)}]
          /\ UNCHANGED <<syncFile, localFiles, mongoSaves>>
     ELSE /\ UNCHANGED history
          /\ localFiles' = SaveToLocalDirectory(localFiles, options.localUsptoJsonDir,
                                                JsonFileName(usptoEntryFile.name))
          /\ syncFile' = SaveToSyncFile(syncFile, ZipFileLink(year, usptoZipFileName.s))
          /\ mongoSaves' = mongoSaves \cup
               {[url |-> ZipFileLink(year, usptoZipFileName.s), state |-> "pending",
                 rows |-> usptoProcessedData.a, documents |-> <<>>]}
          /\ runPc' = "link"
  /\ UNCHANGED <<options, runs, year, links, usptoZipFileName, usptoEntryFile,
                 usptoProcessedData, remotePosts, convVars, claimVars>>

\* JSON.stringify of a string: between quotes, its own quotes escaped.
JsonStringifyString(v) ==
  IF v.t = "null" THEN Str(<<"null">>)
  ELSE Str(<<"QUOTE">>
           \o Concat([i \in 1..Len(v.s) |->
                        IF v.s[i] = "QUOTE" THEN <<"BACKSLASH", "QUOTE">>
                        ELSE <<v.s[i]>>])
           \o <<"QUOTE">>)

\* The paths of UsptoDataSchema.
MongoSchemaPaths ==
  {"applicationNumber", "language", "country", "dateProduced", "datePublished",
   "dtdVersion", "fileName", "patentStatus", "patentClaims", "patentHeadings",
   "inventionTitle", "inventionId"}

\* The object given to new UsptoData(...) for a row.
MongoGiven(row) ==
  [patentApplicationNumber |-> row.applicationNumber,
   language |-> row.language,
   country |-> row.country,
   dateProduced |-> row.dateProduced,
   datePublished |-> row.datePublished,
   dtdVersion |-> row.dtdVersion,
   fileName |-> row.fileName,
   patentStatus |-> row.patentStatus,
   patentClaims |-> JsonStringifyString(row.patentClaims),
   inventionTitle |-> row.inventionTitle,
   inventionId |-> row.inventionId]

\* The document saved for a row: the schema is strict, so a key that is not
\* a path of the schema is dropped, and a path that was not given is undefined.
MongoDocument(row) ==
  LET given == MongoGiven(row)
  IN  [path \in MongoSchemaPaths |->
         IF path \in DOMAIN given THEN given[path] ELSE Undefined]

\* A database save that was started settles: every row is saved, or the
\* connection fails (always, without a connection string) or the save of a
\* row fails, after the rows before it were saved.
MongoSettles ==
  /\ \E save \in mongoSaves :
       /\ save.state = "pending"
       /\ \/ /\ options.mongoDBConnectionString # Null
             /\ mongoSaves' = (mongoSaves \ {save}) \cup
                  {[save EXCEPT !.state = "saved",
                      !.documents = [i \in 1..Len(save.rows) |->
                                       MongoDocument(save.rows[i])]]}
          \/ \E k \in 0..(IF options.mongoDBConnectionString = Null
                           \/ save.rows = <<>> THEN 0 ELSE Len(save.rows) - 1) :
               mongoSaves' = (mongoSaves \ {save}) \cup
                 {[save EXCEPT !.state = "failed",
                     !.documents = [i \in 1..k |-> MongoDocument(save.rows[i])]]}
  /\ UNCHANGED <<options, syncFile, runPc, runs, year, links, usptoZipFileName,
                 usptoEntryFile, usptoProcessedData, localFiles, remotePosts,
                 history, convVars, claimVars>>

Next ==
  \/ StartRun
  \/ EndRun
  \/ FetchYearPage
  \/ EndListing
  \/ NextLink
  \/ FetchZipFails
  \/ FetchZip
  \/ ConvertData
  \/ SaveAndSync
  \/ MongoSettles

Spec == Init /\ [][Next]_vars

(***************************************************************************)
(* The synchronization file alone: isInSyncFile and saveToSyncFile called  *)
(* on URLs, in any order.                                                  *)
(***************************************************************************)
\* The most URLs in the synchronization file.
MaxSyncUrls == 4

\* The URLs the two methods are called on.
SyncUrls ==
  {ZipFileLink(y, h) : y \in StartYear..EndYear,
                       h \in {<<"ipg", "1", ".zip">>, <<"pftaps", "1", ".zip">>}}

InitSync ==
  /\ syncFile = [exists |-> FALSE, urls |-> <<>>]
  /\ options = [localUsptoXmlDir |-> Null, localUsptoJsonDir |-> Null,
                remoteUsptoXmlDir |-> Null, remoteUsptoJsonDir |-> Null,
                mongoDBConnectionString |-> Null, fileLimit |-> FileLimit]
  /\ runPc = "idle" /\ runs = 0 /\ year = 0 /\ links = 0
  /\ usptoZipFileName = Undefined /\ usptoEntryFile = Undefined
  /\ usptoProcessedData = Undefined
  /\ localFiles = {} /\ remotePosts = {} /\ mongoSaves = {}
  /\ history = NoHistory
  /\ ConvIdle /\ ClaimIdle

\* isInSyncFile(fileUrl): the file is created when it is missing.
CallIsInSyncFile ==
  /\ \E fileUrl \in SyncUrls : syncFile' = Created(syncFile)
  /\ UNCHANGED <<options, runPc, runs, year, links, usptoZipFileName,
                 usptoEntryFile, usptoProcessedData, localFiles, remotePosts,
                 mongoSaves, history, convVars, claimVars>>

\* saveToSyncFile(fileUrl)
CallSaveToSyncFile ==
  /\ Len(syncFile.urls) < MaxSyncUrls
  /\ \E fileUrl \in SyncUrls : syncFile' = SaveToSyncFile(syncFile, fileUrl)
  /\ UNCHANGED <<options, runPc, runs, year, links, usptoZipFileName,
                 usptoEntryFile, usptoProcessedData, localFiles, remotePosts,
                 mongoSaves, history, convVars, claimVars>>

NextSync ==
  \/ CallIsInSyncFile
  \/ CallSaveToSyncFile

SpecSync == InitSync /\ [][NextSync]_vars

(***************************************************************************)
(* Properties of the converters (SpecConv) and of the claims lookup        *)
(* (SpecClaims).                                                           *)
(***************************************************************************)
Absent(v) == v \in {Null, Undefined}

\* The section of index k and what the code looks up in it, before any catch.
SectionText(k) == sections.a[k].s

RawLookups(k) ==
  CASE dialect = "A" -> V4Lookups(XmlParse(SectionText(k), RootA))
    [] dialect = "B" -> V2Lookups(XmlParse(SectionText(k), RootB), fileNameArg)
    [] dialect = "C" -> PftapsLookups(SectionText(k), fileNameArg)

ParseFails(k) ==
  /\ dialect \in {"A", "B"}
  /\ XmlParse(SectionText(k), IF dialect = "A" THEN RootA ELSE RootB) = Throw

\* The sections whose iteration has completed.
Processed == IF sections = Null THEN {} ELSE 1..(secIdx - 1)

Emitted(k) == \E i \in 1..Len(emittedFrom) : emittedFrom[i] = k

TokensOf(s) == {s[i] : i \in 1..Len(s)}

\* The blob holds no record span of its dialect.
NoRecordSpan ==
  CASE dialect = "A" -> ~\E i, j \in 1..Len(data) :
                           i < j /\ data[i] = OpenA /\ data[j] = CloseA
    [] dialect = "B" -> ~\E i, j \in 1..Len(data) :
                           i < j /\ data[i] = OpenB /\ data[j] = CloseB
    [] dialect = "C" -> ~\E i \in 1..(Len(data) - 1) :
                           data[i] = "PATN" /\ data[i + 1] = "CRLF"

\* C1: For each of the three converters, a blob that is empty or holds no
\* record span of the dialect yields an empty output sequence and no error.
C1_NoSpanYieldsEmpty ==
  (convPc \in {"loop", "returned", "threw"} /\ NoRecordSpan)
    => (convPc # "threw" /\ usptoBulkPatentData = <<>>)

\* Every field of the record of section k, patentClaims included, is absent.
AllFieldsAbsent(k) ==
  LET lookups == RawLookups(k)
  IN  \A f \in Fields : lookups[f] = Throw \/ Absent(lookups[f])

\* C2: For every dialect and every record substring, the record is left out
\* of the output if and only if every one of its fields is absent.
C2_EmittedIffSomeFieldPresent ==
  convPc \in {"loop", "returned"} =>
    \A k \in Processed : Emitted(k) <=> ~AllFieldsAbsent(k)

\* C3: In dialects A and B a failing XML parse of one record substring does
\* not fail the call: the record is dropped and the later ones are processed.
C3_ParseFailureDoesNotFailCall ==
  (dialect \in {"A", "B"} /\ sections # Null) => convPc # "threw"

\* C6: In dialect C the type of an emitted record is "design" if some line of
\* the record substring is the marker DCLM, and "utility" otherwise.
C6_DesignIffDclmLine ==
  (dialect = "C" /\ convPc \in {"loop", "returned"}) =>
    \A i \in 1..Len(usptoBulkPatentData) :
      LET lines == Split(SectionText(emittedFrom[i]), CRLF)
      IN  usptoBulkPatentData[i].type =
            IF \E n \in 1..Len(lines) : lines[n] = <<"DCLM">>
            THEN Str(<<"design">>)
            ELSE Str(<<"utility">>)

\* The record the code builds of section k, as it is pushed.
SchemaOf(k) ==
  LET lookups == RawLookups(k)
  IN  SchemaData([f \in Fields |-> TryCatch(lookups[f])])

\* C7: For every dialect the emitted records appear in the order of their
\* source record substrings: none is reordered or duplicated.
C7_OrderPreserved ==
  /\ Len(usptoBulkPatentData) = Len(emittedFrom)
  /\ \A i \in 1..Len(usptoBulkPatentData) :
       /\ emittedFrom[i] \in 1..Len(sections.a)
       /\ usptoBulkPatentData[i] = SchemaOf(emittedFrom[i])
       /\ \A j \in 1..Len(usptoBulkPatentData) :
            i < j => emittedFrom[i] < emittedFrom[j]

\* A call of each kind returned two different records, in source order.
C7_Witness ==
  /\ convPc = "returned" /\ dialect = "C"
  /\ Len(usptoBulkPatentData) = 2
  /\ usptoBulkPatentData[1] # usptoBulkPatentData[2]
  /\ emittedFrom = <<1, 2>>

\* C8: In every emitted record each field is either present with a non-empty
\* value or absent; none is present with an empty value (the empty string,
\* or an empty or null-marker claims serialization).
C8_NoPresentButEmpty ==
  \A i \in 1..Len(usptoBulkPatentData) : \A f \in Fields :
    LET v == usptoBulkPatentData[i][f]
    IN  \/ Absent(v)
        \/ /\ v.t = "string" /\ v.s # <<>>
           /\ f = "patentClaims" =>
                v.s \notin {<<"null">>, <<"LBRACKET", "RBRACKET">>}

\* A field as it stands in a pushed record: the claims serialized.
Serialized(f, v) == IF f = "patentClaims" THEN JsonStringify(v) ELSE v

\* C9: For every record whose structural representation was obtained, a
\* failing lookup of one field makes that field alone absent: no exception
\* leaves the record or the pass, and every other field has the value its
\* own lookup yields.
C9_FieldLookupsIndependent ==
  /\ convPc = "threw" => (sections = Null \/ ParseFails(secIdx))
  /\ \A i \in 1..Len(usptoBulkPatentData) :
       LET k == emittedFrom[i]
           rec == usptoBulkPatentData[i]
           lookups == RawLookups(k)
       IN  /\ \A f \in Fields :
                rec[f] = Serialized(f, IF lookups[f] = Throw THEN Null
                                       ELSE lookups[f])
           /\ dialect = "A" =>
                IF "lang=EN" \in TokensOf(SectionText(k))
                THEN rec.language = Str(<<"EN">>) ELSE Absent(rec.language)
           /\ dialect = "B" =>
                IF "DTD=2.4" \in TokensOf(SectionText(k))
                THEN rec.dtdVersion = Str(<<"2.4">>) ELSE Absent(rec.dtdVersion)
           /\ dialect = "C" =>
                (Absent(rec.applicationNumber) <=>
                   ~\E n \in 1..Len(Split(SectionText(k), CRLF)) :
                       StartsWith(Split(SectionText(k), CRLF)[n], PNO))

\* A returned record in which one lookup failed and another field is present.
C9_Witness ==
  /\ convPc = "returned" /\ dialect = "A"
  /\ \E i \in 1..Len(usptoBulkPatentData) :
       /\ RawLookups(emittedFrom[i]).applicationNumber = Throw
       /\ usptoBulkPatentData[i].applicationNumber = Null
       /\ usptoBulkPatentData[i].language = Str(<<"EN">>)
       /\ usptoBulkPatentData[i].patentClaims # Str(<<"null">>)

\* A line of claim text: neither marker, and text left after the prefix.
IsTextLine(l) ==
  ~IsClaimNumberLine(l) /\ ~IsStmLine(l) /\ Trim(StripParagraphPrefix(l)) # <<>>

IsPlainMarker(l) == IsClaimNumberLine(l) /\ l[2] = "SP" /\ l[3] = "SP"

MarkerCount(lines) ==
  Cardinality({i \in 1..Len(lines) : IsClaimNumberLine(lines[i])})

\* A claim section of claim-number markers, each followed by text lines.
NumberedClaims(lines) ==
  /\ lines # <<>> /\ IsPlainMarker(lines[1])
  /\ \A i \in 1..Len(lines) :
       \/ IsTextLine(lines[i])
       \/ IsPlainMarker(lines[i]) /\ i < Len(lines) /\ IsTextLine(lines[i + 1])

\* C4: The text accumulated when the claim section ends is flushed as the
\* final claim: N claim-number markers, each followed by at least one text
\* line, yield exactly N claims.
C4_FinalClaimFlushed ==
  (claimPc = "done" /\ NumberedClaims(claimLines)) =>
    (patentClaims.t = "array" /\ Len(patentClaims.a) = MarkerCount(claimLines))

\* C5 as stated: a claim section of exactly one line that is not a
\* claim-number marker yields exactly one claim, that line with its
\* paragraph prefix stripped, trimmed.
C5_SingleLineNotMarker ==
  (claimPc = "done" /\ Len(claimLines) = 1 /\ ~IsClaimNumberLine(claimLines[1])) =>
    patentClaims = Arr(<<Str(Trim(StripParagraphPrefix(claimLines[1])))>>)

\* C5, amended: a claim section of exactly one line that is neither a
\* claim-number marker nor a claim-step (STM) marker yields exactly one
\* claim, that line with its paragraph prefix stripped, trimmed.
C5_SingleLineFlushed ==
  (claimPc = "done" /\ Len(claimLines) = 1
     /\ ~IsClaimNumberLine(claimLines[1]) /\ ~IsStmLine(claimLines[1])) =>
    patentClaims = Arr(<<Str(Trim(StripParagraphPrefix(claimLines[1])))>>)

\* The claim section of the one line "PA1  b" gave the one claim "b".
C5_Witness ==
  /\ claimPc = "done"
  /\ claimLines = <<<<"PA1", "SP", "SP", "b">>>>
  /\ patentClaims = Arr(<<Str(<<"b">>)>>)


(***************************************************************************)
(* Properties of the processor (Spec).                                     *)
(***************************************************************************)
LedgerUrls == {syncFile.urls[i] : i \in 1..Len(syncFile.urls)}

\* C10: The sync ledger is consulted before an archive is fetched and
\* converted and updated only after its conversion succeeded: an archive
\* whose URL is in the ledger is never fetched or passed to a converter, and
\* a URL is in the ledger only once the converter for that archive has
\* returned without error.
C10_LedgerGatesFetchAndFollowsConversion ==
  /\ history.fetchedSynced = {}
  /\ runPc \in {"fetch", "convert", "save"} =>
       ZipFileLink(year, usptoZipFileName.s) \notin LedgerUrls
  /\ LedgerUrls \subseteq history.converted
  /\ LedgerUrls \subseteq history.fetched

\* In a second run an archive of the ledger was passed over, and it was
\* fetched and converted before.
C10_Witness ==
  /\ runs = 2
  /\ \E u \in history.skipped :
       u \in LedgerUrls /\ u \in history.converted /\ u \in history.fetched

\* C17: The language and country fields are present only in records of
\* dialect A: in every record the dialect B and dialect C converters emit,
\* both are absent.
C17_LocaleOnlyInDialectA ==
  dialect \in {"B", "C"} =>
    \A i \in 1..Len(usptoBulkPatentData) :
      /\ Absent(usptoBulkPatentData[i].language)
      /\ Absent(usptoBulkPatentData[i].country)

\* C18: At a claim-number marker line the accumulated text is flushed only
\* if it is non-empty, and the accumulator is reset; so every string of the
\* emitted claims is non-empty, and no claim holds the text of a
\* claim-number marker line.
C18_ClaimsNonEmptyWithoutMarkers ==
  (claimPc = "done" /\ patentClaims.t = "array") =>
    \A i \in 1..Len(patentClaims.a) :
      /\ patentClaims.a[i].s # <<>>
      /\ \A j \in 1..Len(claimLines) :
           IsClaimNumberLine(claimLines[j]) =>
             IndexOf(patentClaims.a[i].s, claimLines[j], 1) = 0

\* The bibliographic fields of dialect C that are read off a prefixed line.
PrefixOf ==
  [applicationNumber |-> PNO, dateProduced |-> APD, datePublished |-> ISD,
   inventionTitle |-> TTL]

\* The first line of section k that starts with the prefix, without the
\* prefix; null when there is no such line.
RestOfFirstLine(k, prefix) ==
  LET lines == Split(SectionText(k), CRLF)
      at == {i \in 1..Len(lines) : StartsWith(lines[i], prefix)}
  IN  IF at = {} THEN Null
      ELSE LET first == CHOOSE i \in at : \A j \in at : i <= j
           IN  Str(SubSeq(lines[first], Len(prefix) + 1, Len(lines[first])))

\* C19: In dialect C each of applicationNumber, dateProduced, datePublished
\* and inventionTitle is the first line of the record substring that starts
\* with its prefix token, with that leading prefix removed and the whole rest
\* of the line kept, and is absent when no line starts with the token.
C19_PrefixedFieldIsRestOfLine ==
  dialect = "C" =>
    \A i \in 1..Len(usptoBulkPatentData) :
      \A f \in DOMAIN PrefixOf :
        usptoBulkPatentData[i][f] = RestOfFirstLine(emittedFrom[i], PrefixOf[f])

\* Where the record-start marker, PATN and a line end, stands in the blob.
MarkerAt ==
  {i \in 1..(Len(data) - 1) : data[i] = "PATN" /\ data[i + 1] = "CRLF"}

\* The place of the k-th marker of the blob.
NthMarker(k) ==
  CHOOSE p \in MarkerAt : Cardinality({q \in MarkerAt : q < p}) = k - 1

\* C20: The dialect C splitter yields one candidate record substring per
\* occurrence of the record-start marker, in source order: the text from
\* after a marker up to the next marker or the end; no substring holds the
\* marker, and what stands before the first marker is in no substring.
C20_OneSectionPerMarker ==
  (dialect = "C" /\ sections # Null) =>
    /\ Len(sections.a) = Cardinality(MarkerAt)
    /\ \A k \in 1..Len(sections.a) :
         /\ sections.a[k].s =
              SubSeq(data, NthMarker(k) + 2,
                     IF k < Len(sections.a) THEN NthMarker(k + 1) - 1 ELSE Len(data))
         /\ IndexOf(sections.a[k].s, <<"PATN", "CRLF">>, 1) = 0

\* A blob with a header line and two markers was split.
C20_Witness ==
  /\ dialect = "C" /\ sections # Null
  /\ data # <<>> /\ data[1] # "PATN"
  /\ Len(sections.a) = 2 /\ sections.a[1].s # <<>>

\* C24: In dialect C patentClaims is never absent: the claims lookup gives a
\* list, possibly empty, for every record substring; and when the substring
\* holds no claims-section marker (CLMS or DCLM and a line end), the whole
\* substring, header lines included, is taken as the claim section.
C24_ClaimsAlwaysAList ==
  claimPc = "done" =>
    /\ patentClaims.t = "array"
    /\ (/\ IndexOf(patentPftapsSection, <<"CLMS", "CRLF">>, 1) = 0
        /\ IndexOf(patentPftapsSection, <<"DCLM", "CRLF">>, 1) = 0)
       => claimLines = Split(Trim(patentPftapsSection), CRLF)

\* The converter the prefix of a zip file name stands for.
ExtractorOf(url) ==
  CASE url[2][1] = "ipg" -> "A"
    [] url[2][1] = "pg0" -> "B"
    [] url[2][1] = "pftaps" -> "C"
    [] OTHER -> "none"

\* C12: An archive is converted by exactly one extractor, the one its zip
\* file name prefix selects ('ipg' version 4, 'pg0' version 2, 'pftaps' the
\* line-oriented one); no archive is passed to a converter of another dialect.
C12_ExtractorByPrefix ==
  /\ \A c \in history.calls : c.dialect = ExtractorOf(c.url)
  /\ \A u \in history.converted :
       Cardinality({c \in history.calls : c.url = u}) = 1
  /\ (runPc = "save" /\ ExtractorOf(ZipFileLink(year, usptoZipFileName.s)) # "none")
       => ZipFileLink(year, usptoZipFileName.s) \in history.converted

\* Archives of two dialects were converted, each by its own converter.
C12_Witness ==
  \E c1, c2 \in history.calls :
    /\ c1.dialect = "B" /\ c2.dialect = "C"
    /\ c1.url \in history.converted /\ c2.url \in history.converted

\* The fields of a record the database is to hold as they are.
VerbatimFields == Fields \ {"patentClaims"}

\* C13: For every record handed to the database sink, the persisted document
\* holds the eleven fields other than patentClaims, each equal to the
\* record's value, and patentClaims as the serialized string of the claims
\* list, serialized once.
C13_DocumentHoldsRecord ==
  \A save \in mongoSaves :
    \A i \in 1..Len(save.documents) :
      /\ \A f \in VerbatimFields :
           /\ f \in DOMAIN save.documents[i]
           /\ save.documents[i][f] = save.rows[i][f]
      /\ save.documents[i].patentClaims = save.rows[i].patentClaims

\* C14: For archives of dialects B and C the fileName of every emitted record
\* is the file name the caller supplied, and in the pipeline the caller
\* supplies the name of the archive entry: every record of a run names the
\* archive entry it came from.
C14_FileNameIsEntryName ==
  (/\ runPc = "save"
   /\ usptoProcessedData # Undefined
   /\ DialectOf(usptoZipFileName.s) \in {"B", "C"})
  => \A i \in 1..Len(usptoProcessedData.a) :
       usptoProcessedData.a[i].fileName = Str(usptoEntryFile.name)

\* C15: In any run of the processor the number of archive files fetched and
\* processed never exceeds the configured fileLimit.
C15_FetchedWithinFileLimit == history.fetchedInRun <= options.fileLimit

\* C16: A storage sink whose configuration value is null is never written
\* to: no local file is written for a null local directory, no POST is
\* issued for a null remote directory, and no database save is attempted
\* with a null connection string.
C16_NullSinkNeverWritten ==
  /\ \A file \in localFiles :
       file.directory \in
         {options.localUsptoXmlDir, options.localUsptoJsonDir} \ {Null}
  /\ \A post \in remotePosts : post.directory # Null
  /\ options.mongoDBConnectionString = Null => mongoSaves = {}

\* C21: The archive URL is in the sync ledger before the database save is
\* started, and the save is not awaited: a database save exists only for a
\* URL of the ledger, it is the only save ever started for that URL, and a
\* save that has failed stays failed, for every later run passes the archive
\* over; its records are never persisted.
C21_SyncedBeforeSaveAndNeverRetried ==
  [][/\ \A save \in mongoSaves' : save.url \in LedgerUrls'
     /\ \A save \in mongoSaves : save.state = "failed" => save \in mongoSaves'
     /\ \A save \in mongoSaves' \ mongoSaves :
          save.state = "pending" => \A old \in mongoSaves : old.url # save.url
     /\ \A save \in mongoSaves' \ mongoSaves :
          save.state = "saved" => options.mongoDBConnectionString # Null]_vars

\* A later run has passed over an archive of the ledger whose database save
\* has failed with nothing saved.
C21_Witness ==
  /\ runs = 2 /\ runPc = "done"
  /\ \E save \in mongoSaves :
       /\ save.state = "failed" /\ save.rows # <<>> /\ save.documents = <<>>
       /\ save.url \in LedgerUrls /\ save.url \in history.skipped

\* C22: When the processing of an archive fails before the sync step (the
\* converter throws, or the zip file name has none of the three prefixes),
\* the sync ledger is left as it was, so the archive is not passed over in
\* the next run; the failure leaves run(), and the rest of the archives of
\* that run are not processed.
C22_FailureLeavesLedgerAndEndsRun ==
  [][/\ (runPc = "convert" /\ runPc' # "convert"
          /\ "BAD" \in TokensOf(usptoEntryFile.data)) => runPc' = "failed"
     /\ (runPc = "save" /\ runPc' # "save"
          /\ ExtractorOf(ZipFileLink(year, usptoZipFileName.s)) = "none")
          => runPc' = "failed"
     /\ (runPc \in {"convert", "save"} /\ runPc' = "failed") =>
          /\ syncFile' = syncFile
          /\ ZipFileLink(year, usptoZipFileName.s) \notin LedgerUrls'
     /\ (history.skipped' \ history.skipped) \subseteq LedgerUrls'
     /\ runPc = "failed" =>
          \/ /\ runPc' = "failed" /\ syncFile' = syncFile /\ links' = links
             /\ history.fetched' = history.fetched
             /\ history.calls' = history.calls
          \/ runs' = runs + 1 /\ runPc' = "year"]_vars

\* The archive whose processing failed in the first run is fetched again in
\* the second.
C22_Witness ==
  /\ runs = 2 /\ runPc = "convert" /\ history.fetchedInRun = 1
  /\ ZipFileLink(year, usptoZipFileName.s) \in history.failed
  /\ ZipFileLink(year, usptoZipFileName.s) \notin LedgerUrls

\* C23: Starting from a missing or empty ledger, after any sequence of
\* sequential runs, listings that name an archive more than once included,
\* the sync ledger holds no URL twice.
C23_LedgerHasNoUrlTwice ==
  \A i, j \in 1..Len(syncFile.urls) :
    i # j => syncFile.urls[i] # syncFile.urls[j]

\* Within one run a listing named an archive again after it was processed
\* and added to the ledger, and it was passed over.
C23_Witness ==
  /\ runs = 1 /\ history.fetchedInRun = 1
  /\ \E u \in history.skipped : syncFile.urls = <<u>>

(***************************************************************************)
(* Properties of the synchronization file (SpecSync).                      *)
(***************************************************************************)
\* C11: Inserting into the sync ledger is idempotent: saveToSyncFile(u) on a
\* ledger that already holds u leaves the ledger unchanged.
C11_InsertIdempotent ==
  \A u \in LedgerUrls : SaveToSyncFile(syncFile, u) = syncFile

=============================================================================
